---- MODULE Spec2Model ----
(***************************************************************************)
(* Model of the session-synchronisation component AuthProvider             *)
(* (components/auth/AuthProvider.tsx, here src/unnamed/part_000) together  *)
(* with the Session Source wrappers getUser / onAuthStateChange and the    *)
(* analytics sink (src/lib/supabase/auth.ts).                              *)
(*                                                                         *)
(* The Store's state is the pair of React state cells (user, isLoading).   *)
(* "Unknown" is isLoading = TRUE, "Absent" is isLoading = FALSE with       *)
(* user = Null, "Present(u)" is isLoading = FALSE with user = u.           *)
(***************************************************************************)
EXTENDS Naturals, Sequences, FiniteSets

\* Bound on the number of provider auth events in one behaviour.
MaxEvents == 3

Null == "null"
Users == {"u1", "u2"}
UserOrNull == Users \cup {Null}

VARIABLES
    pc,          \* lifecycle of the effect: "init", "mounted", "unmounted"
    user,        \* useState<User | null>(null)
    isLoading,   \* useState(true)
    fetchState,  \* the getUser() promise: "idle", "pending", "fulfilled", "rejected", "done"
    fetchVal,    \* the value the getUser() promise was fulfilled with
    sub,         \* the provider subscription: "none", "active", "failed", "released"
    unsubCalls,  \* number of subscription.unsubscribe() calls
    provider,    \* the identity provider's current user
    sink,        \* the calls received by analytics, in order
    hist,        \* the completions processed by the handlers, in order
    errors,      \* where an exception or rejection escaped to
    srcCalls,    \* the calls made to the Session Source, in order
    nEvents      \* number of provider auth events so far

vars == <<pc, user, isLoading, fetchState, fetchVal, sub, unsubCalls,
          provider, sink, hist, errors, srcCalls, nEvents>>

Identify(u) == [op |-> "identify", id |-> u]
Reset == [op |-> "reset", id |-> Null]

\* setUser(user); setIsLoading(false)
ApplyCompletion_KeepsLoading(u) == [user |-> u, isLoading |-> (u = Null)]
ApplyCompletion(u) == [user |-> u, isLoading |-> FALSE]

\* the sink calls of the getUser().then continuation: identify when a user
\* is present, nothing otherwise
FetchSinkCalls_Inverted(u) == IF u = Null THEN <<Identify(u)>> ELSE <<>>
FetchSinkCalls(u) == IF u # Null THEN <<Identify(u)>> ELSE <<>>

\* the sink calls of the onAuthStateChange callback: identify or reset
PushSinkCalls_NoReset(u) == IF u # Null THEN <<Identify(u)>> ELSE <<>>
PushSinkCalls(u) == IF u # Null THEN <<Identify(u)>> ELSE <<Reset>>

\* the cleanup returned by the effect: () => subscription.unsubscribe();
\* when onAuthStateChange threw the effect returned no cleanup
Cleanup_KeepsSubscription(s, n) == [sub |-> s, unsubCalls |-> n]
Cleanup(s, n) ==
    IF s = "active" THEN [sub |-> "released", unsubCalls |-> n + 1]
                    ELSE [sub |-> s, unsubCalls |-> n]

\* session?.user || null
CallbackArg(u) == IF u \in Users THEN u ELSE Null

Init ==
    /\ pc = "init"
    /\ user = Null
    /\ isLoading = TRUE
    /\ fetchState = "idle"
    /\ fetchVal = Null
    /\ sub = "none"
    /\ unsubCalls = 0
    /\ provider \in UserOrNull
    /\ sink = <<>>
    /\ hist = <<>>
    /\ errors = {}
    /\ srcCalls = <<>>
    /\ nEvents = 0

\* The effect body runs on mount: getUser() is called and its continuation
\* attached, then onAuthStateChange registers the callback and the effect
\* returns the unsubscribe function.
Start_SubscribeFirst ==
    /\ pc = "init"
    /\ pc' = "mounted"
    /\ fetchState' = "pending"
    /\ sub' = "active"
    /\ srcCalls' = srcCalls \o <<"onAuthStateChange", "getUser">>
    /\ UNCHANGED <<user, isLoading, fetchVal, unsubCalls, provider, sink,
                   hist, errors, nEvents>>

Start ==
    /\ pc = "init"
    /\ pc' = "mounted"
    /\ fetchState' = "pending"
    /\ sub' = "active"
    /\ srcCalls' = srcCalls \o <<"getUser", "onAuthStateChange">>
    /\ UNCHANGED <<user, isLoading, fetchVal, unsubCalls, provider, sink,
                   hist, errors, nEvents>>

\* The effect body when onAuthStateChange throws (createClient or the
\* provider's registration fails): getUser() was already called, the
\* exception leaves the effect, no cleanup is returned.
StartSubscribeThrows ==
    /\ pc = "init"
    /\ pc' = "mounted"
    /\ fetchState' = "pending"
    /\ sub' = "failed"
    /\ errors' = errors \cup {"effect"}
    /\ srcCalls' = srcCalls \o <<"getUser", "onAuthStateChange">>
    /\ UNCHANGED <<user, isLoading, fetchVal, unsubCalls, provider, sink,
                   hist, nEvents>>

\* supabase.auth.getUser() answers: the promise of getUser() is fulfilled
\* with the provider's current user.
FetchFulfil ==
    /\ fetchState = "pending"
    /\ fetchState' = "fulfilled"
    /\ fetchVal' = provider
    /\ UNCHANGED <<pc, user, isLoading, sub, unsubCalls, provider, sink,
                   hist, errors, srcCalls, nEvents>>

\* createClient() or supabase.auth.getUser() throws: the promise of
\* getUser() rejects. The .then has no rejection handler and no .catch
\* follows it, so the continuation never runs.
FetchReject ==
    /\ fetchState = "pending"
    /\ fetchState' = "rejected"
    /\ errors' = errors \cup {"fetchRejection"}
    /\ UNCHANGED <<pc, user, isLoading, fetchVal, sub, unsubCalls, provider,
                   sink, hist, srcCalls, nEvents>>

\* The continuation of getUser().then runs with the fulfilled value. It is
\* not guarded by the effect's lifecycle, so it also runs after cleanup.
\* The setters are called before the sink, so a throwing sink call leaves
\* the state already written.

\* variant: the fetch result is dropped once a push has been processed
FetchComplete_GenerationCheck ==
    /\ fetchState = "fulfilled"
    /\ fetchState' = "done"
    /\ LET stale == \E i \in 1..Len(hist) : hist[i].ch = "push"
       IN  /\ user' = IF stale THEN user ELSE fetchVal
           /\ isLoading' = FALSE
    /\ sink' = sink \o FetchSinkCalls(fetchVal)
    /\ hist' = Append(hist, [ch |-> "fetch", val |-> fetchVal,
                             pre |-> Len(sink), threw |-> FALSE])
    /\ UNCHANGED <<pc, fetchVal, sub, unsubCalls, provider, srcCalls,
                   nEvents, errors>>

\* variant: setUser only when the fetch returned a user
FetchComplete_KeepsPresent ==
    /\ fetchState = "fulfilled"
    /\ fetchState' = "done"
    /\ user' = IF fetchVal # Null THEN fetchVal ELSE user
    /\ isLoading' = FALSE
    /\ sink' = sink \o FetchSinkCalls(fetchVal)
    /\ hist' = Append(hist, [ch |-> "fetch", val |-> fetchVal,
                             pre |-> Len(sink), threw |-> FALSE])
    /\ UNCHANGED <<pc, fetchVal, sub, unsubCalls, provider, srcCalls,
                   nEvents, errors>>

\* variant: the sink is called before the setters, so a throwing sink call
\* leaves the state unwritten
FetchComplete_SinkFirst ==
    /\ fetchState = "fulfilled"
    /\ fetchState' = "done"
    /\ sink' = sink \o FetchSinkCalls(fetchVal)
    /\ \E threw \in BOOLEAN :
          /\ threw => FetchSinkCalls(fetchVal) # <<>>
          /\ user' = IF threw THEN user ELSE fetchVal
          /\ isLoading' = IF threw THEN isLoading ELSE FALSE
          /\ errors' = IF threw THEN errors \cup {"fetchHandler"} ELSE errors
          /\ hist' = Append(hist, [ch |-> "fetch", val |-> fetchVal,
                                   pre |-> Len(sink), threw |-> threw])
    /\ UNCHANGED <<pc, fetchVal, sub, unsubCalls, provider, srcCalls, nEvents>>

FetchComplete ==
    /\ fetchState = "fulfilled"
    /\ fetchState' = "done"
    /\ user' = ApplyCompletion(fetchVal).user
    /\ isLoading' = ApplyCompletion(fetchVal).isLoading
    /\ sink' = sink \o FetchSinkCalls(fetchVal)
    /\ \E threw \in BOOLEAN :
          /\ threw => FetchSinkCalls(fetchVal) # <<>>
          /\ errors' = IF threw THEN errors \cup {"fetchHandler"} ELSE errors
          /\ hist' = Append(hist, [ch |-> "fetch", val |-> fetchVal,
                                   pre |-> Len(sink), threw |-> threw])
    /\ UNCHANGED <<pc, fetchVal, sub, unsubCalls, provider, srcCalls, nEvents>>

\* The provider emits an auth event whose session carries user u (sign-in,
\* sign-out, or a refresh that leaves the user as it is). While the
\* subscription is registered, the wrapper passes session?.user || null to
\* the Store's callback, which runs in the same step.
AuthEvent(u) ==
    /\ nEvents < MaxEvents
    /\ nEvents' = nEvents + 1
    /\ provider' = u
    /\ IF sub = "active"
       THEN /\ user' = ApplyCompletion(CallbackArg(u)).user
            /\ isLoading' = ApplyCompletion(CallbackArg(u)).isLoading
            /\ sink' = sink \o PushSinkCalls(CallbackArg(u))
            /\ \E threw \in BOOLEAN :
                  /\ threw => PushSinkCalls(CallbackArg(u)) # <<>>
                  /\ errors' = IF threw THEN errors \cup {"pushCallback"}
                                        ELSE errors
                  /\ hist' = Append(hist, [ch |-> "push",
                                           val |-> CallbackArg(u),
                                           pre |-> Len(sink),
                                           threw |-> threw])
       ELSE UNCHANGED <<user, isLoading, sink, errors, hist>>
    /\ UNCHANGED <<pc, fetchState, fetchVal, sub, unsubCalls, srcCalls>>

\* The owning scope unmounts: React runs the cleanup the effect returned.
Teardown ==
    /\ pc = "mounted"
    /\ pc' = "unmounted"
    /\ sub' = Cleanup(sub, unsubCalls).sub
    /\ unsubCalls' = Cleanup(sub, unsubCalls).unsubCalls
    /\ UNCHANGED <<user, isLoading, fetchState, fetchVal, provider, sink,
                   hist, errors, srcCalls, nEvents>>

Next ==
    \/ Start
    \/ StartSubscribeThrows
    \/ FetchFulfil
    \/ FetchReject
    \/ FetchComplete
    \/ \E u \in UserOrNull : AuthEvent(u)
    \/ Teardown

Spec == Init /\ [][Next]_vars

TypeOK ==
    /\ pc \in {"init", "mounted", "unmounted"}
    /\ user \in UserOrNull
    /\ isLoading \in BOOLEAN
    /\ fetchState \in {"idle", "pending", "fulfilled", "rejected", "done"}
    /\ fetchVal \in UserOrNull
    /\ sub \in {"none", "active", "failed", "released"}
    /\ unsubCalls \in 0..1
    /\ provider \in UserOrNull
    /\ nEvents \in 0..MaxEvents
    /\ Len(hist) <= MaxEvents + 1
    /\ Len(sink) <= MaxEvents + 1

(***************************************************************************)
(* Helpers over the recorded history.                                      *)
(***************************************************************************)
HasIdentity(v) == v # Null

\* the sink calls made from completion i up to and including completion j
SinkCallsOf(i, j) ==
    SubSeq(sink, hist[i].pre + 1,
           IF j < Len(hist) THEN hist[j + 1].pre ELSE Len(sink))

PushCount == Cardinality({i \in 1..Len(hist) : hist[i].ch = "push"})

\* C1: once a completion has been processed isLoading is false (resolved),
\* and once isLoading is false it is false in every later state: the value
\* never returns to Unknown.
C1_ResolvedStable ==
    [][ /\ (Len(hist') > 0 => isLoading' = FALSE)
        /\ (isLoading = FALSE => isLoading' = FALSE) ]_vars

C1_Witness ==
    /\ Len(hist) >= 3
    /\ \E i \in 1..Len(hist) : hist[i].ch = "fetch" /\ hist[i].val = Null
    /\ \E i \in 1..Len(hist) : hist[i].ch = "push" /\ hist[i].val = Null
    /\ isLoading = FALSE

\* C2: when the getUser() promise has rejected and no push notification has
\* fired, the Store is resolved to Absent (isLoading false, user null).
C2_FetchFailureResolves ==
    (fetchState = "rejected" /\ PushCount = 0)
        => (isLoading = FALSE /\ user = Null)

\* C3: a fetch completion processed after the cleanup ran makes no sink
\* call and leaves user and isLoading unchanged.
C3_LateFetchDiscarded ==
    [][ (pc = "unmounted" /\ fetchState = "fulfilled" /\ fetchState' = "done")
            => (sink' = sink /\ user' = user /\ isLoading' = isLoading) ]_vars

\* C4: a completion whose has-identity/no-identity classification equals
\* that of the completion processed immediately before it makes no sink
\* call.
C4_DispatchOnTransitionOnly ==
    [][ ( /\ Len(hist) >= 1
          /\ Len(hist') = Len(hist) + 1
          /\ HasIdentity(hist'[Len(hist')].val) = HasIdentity(hist[Len(hist)].val) )
            => sink' = sink ]_vars

\* C5: the first completion processed always makes a sink call; when the
\* only completion is a fetch that resolved null, the Store is Absent and
\* resolved and the sink has received exactly one reset.
C5_FirstCompletionDispatches ==
    /\ (Len(hist) >= 1 => Len(sink) >= 1)
    /\ ( (Len(hist) = 1 /\ hist[1].ch = "fetch" /\ hist[1].val = Null)
            => (user = Null /\ isLoading = FALSE /\ sink = <<Reset>>) )

\* C6: after a push carrying u1 followed by the fetch completing with null
\* (before teardown), the Store is Absent and resolved and the sink has
\* received exactly identify(u1) then reset.
C6_PushThenNullFetch ==
    ( /\ pc = "mounted"
      /\ Len(hist) = 2
      /\ hist[1].ch = "push" /\ hist[1].val = "u1"
      /\ hist[2].ch = "fetch" /\ hist[2].val = Null )
        => ( /\ user = Null
             /\ isLoading = FALSE
             /\ sink = <<Identify("u1"), Reset>> )

\* C7: two consecutive push completions carrying Present(A) and then Absent
\* make exactly the sink calls identify(A), reset, in that order.
C7_PresentThenAbsent ==
    \A i \in 1..Len(hist) :
        ( /\ i < Len(hist)
          /\ hist[i].ch = "push" /\ hist[i].val \in Users
          /\ hist[i + 1].ch = "push" /\ hist[i + 1].val = Null )
            => SinkCallsOf(i, i + 1) = <<Identify(hist[i].val), Reset>>

C7_Witness ==
    /\ Len(hist) = 3
    /\ hist[1].ch = "fetch" /\ hist[1].val = "u2"
    /\ hist[2].ch = "push" /\ hist[2].val = "u2"
    /\ hist[3].ch = "push" /\ hist[3].val = Null
    /\ sink = <<Identify("u2"), Identify("u2"), Reset>>

\* C8: when opening the subscription throws, no error leaves the effect,
\* and the fetch that was already issued, once completed, has set user and
\* cleared isLoading.
C8_SubscribeFailureContained ==
    sub = "failed"
        => ( /\ "effect" \notin errors
             /\ fetchState # "idle"
             /\ (fetchState = "done" => (user = fetchVal /\ isLoading = FALSE)) )

\* C9: an established subscription is held as exactly one handle from start
\* until teardown, unsubscribe is called exactly once, at teardown and not
\* before, and after the release an auth event changes neither user,
\* isLoading nor the sink.
C9_HandleState ==
    sub # "failed"
        => ( /\ (pc = "init" => (sub = "none" /\ unsubCalls = 0))
             /\ (pc = "mounted" => (sub = "active" /\ unsubCalls = 0))
             /\ (pc = "unmounted" => (sub = "released" /\ unsubCalls = 1)) )

C9_SingleHandleReleasedOnce ==
    [][ /\ C9_HandleState'
        /\ ( (pc = "unmounted" /\ nEvents' # nEvents)
                => UNCHANGED <<user, isLoading, sink, hist>> ) ]_vars

C9_Witness ==
    /\ pc = "unmounted"
    /\ sub = "released"
    /\ unsubCalls = 1
    /\ PushCount = 1
    /\ nEvents = 3

\* C10: when the sink call of the last processed completion threw, the
\* Store holds that completion's value with isLoading false and no error
\* left the fetch continuation or the push callback.
C10_SinkFailureSwallowed ==
    (Len(hist) >= 1 /\ hist[Len(hist)].threw)
        => ( /\ user = hist[Len(hist)].val
             /\ isLoading = FALSE
             /\ "fetchHandler" \notin errors
             /\ "pushCallback" \notin errors )

\* the identity the sink is associated with after the calls it received
SinkAssoc == IF sink = <<>> THEN Null ELSE sink[Len(sink)].id

NoSinkThrow == \A i \in 1..Len(hist) : ~hist[i].threw

\* C11: before teardown the Store holds the value carried by the most
\* recently processed completion, whichever channel it came from and
\* whatever was processed before it (last writer wins).
C11_LastWriterWins ==
    (pc = "mounted" /\ Len(hist) >= 1)
        => (user = hist[Len(hist)].val /\ isLoading = FALSE)

C11_Witness ==
    /\ pc = "mounted"
    /\ Len(hist) = 3
    /\ hist[1].ch = "push" /\ hist[1].val = "u1"
    /\ hist[2].ch = "push" /\ hist[2].val = "u2"
    /\ hist[3].ch = "fetch" /\ hist[3].val = Null
    /\ user = Null

\* C12: whenever the fetch completion is processed, before teardown, right
\* after a push that carried the provider's current identity while the
\* fetch had observed a different, older one, the Store ends holding the
\* older value, differing from the provider, with the fetch finished and
\* so nothing pending that would correct it.
C12_StaleFetchOverwrites ==
    [][ ( /\ pc = "mounted"
          /\ fetchState = "fulfilled" /\ fetchState' = "done"
          /\ Len(hist) >= 1
          /\ hist[Len(hist)].ch = "push"
          /\ hist[Len(hist)].val = provider
          /\ fetchVal # provider )
            => ( /\ user = provider
                 /\ user' = fetchVal
                 /\ user' # provider'
                 /\ fetchState' = "done" ) ]_vars

C12_Witness ==
    /\ pc = "mounted"
    /\ sub = "active"
    /\ fetchState = "done"
    /\ Len(hist) = 2
    /\ hist[1].ch = "push" /\ hist[1].val = "u1"
    /\ hist[2].ch = "fetch" /\ hist[2].val = Null
    /\ provider = "u1"
    /\ user = Null
    /\ isLoading = FALSE

\* C13: every sink call made by a completion matches the completion's
\* value: identify with the user's id when it carries a user, reset when it
\* carries null, on both channels.
C13_SinkCallMatchesValue ==
    \A i \in 1..Len(hist) :
        \A k \in 1..Len(SinkCallsOf(i, i)) :
            SinkCallsOf(i, i)[k] =
                IF hist[i].val # Null THEN Identify(hist[i].val) ELSE Reset

C13_Witness ==
    /\ Len(hist) = 3
    /\ hist[1].ch = "fetch" /\ hist[1].val = "u1"
    /\ hist[2].ch = "push" /\ hist[2].val = Null
    /\ hist[3].ch = "push" /\ hist[3].val = "u2"
    /\ sink = <<Identify("u1"), Reset, Identify("u2")>>

\* C14: a provider auth event that leaves the provider's user unchanged
\* invokes no callback (no completion is processed).
C14_CallbackOnChangeOnly ==
    [][ (nEvents' # nEvents /\ provider' = provider) => hist' = hist ]_vars

\* C15: before teardown, after any processed completion (no sink call
\* having thrown), the identity the sink is associated with equals the
\* Store's user.
C15_SinkAgreesWithStore ==
    (pc = "mounted" /\ Len(hist) >= 1 /\ NoSinkThrow)
        => SinkAssoc = user

\* C16: the setters run before the sink call: when the sink call of the
\* last completion threw, the Store already holds that completion's value
\* with isLoading false; and isLoading is false only once a completion has
\* been processed, with user being the value of the last one.
C16_StateBeforeSink ==
    /\ ( (Len(hist) >= 1 /\ hist[Len(hist)].threw)
            => (user = hist[Len(hist)].val /\ isLoading = FALSE) )
    /\ ( isLoading = FALSE
            => (Len(hist) >= 1 /\ user = hist[Len(hist)].val) )

C16_Witness ==
    /\ Len(hist) = 1
    /\ hist[1].ch = "fetch"
    /\ hist[1].val = "u1"
    /\ hist[1].threw
    /\ sink = <<Identify("u1")>>
    /\ user = "u1"
    /\ isLoading = FALSE

\* C17: once started, the Store has called getUser exactly once and
\* onAuthStateChange exactly once, in that order, and no later step adds a
\* call.
C17_OneFetchOneSubscription ==
    /\ (pc = "init" => srcCalls = <<>>)
    /\ (pc # "init" => srcCalls = <<"getUser", "onAuthStateChange">>)

C17_Witness ==
    /\ pc = "unmounted"
    /\ Len(hist) = 4
    /\ fetchState = "done"
    /\ srcCalls = <<"getUser", "onAuthStateChange">>

====
